---- MODULE Spec2Model ----
(***************************************************************************)
(* Model of openapi-fuzzer (src/main.rs): the fuzz loop of main, payload   *)
(* generation (prepare_request, schema_kind_to_json and helpers), request  *)
(* assembly (send_request) and response validation (check_response).       *)
(*                                                                         *)
(* Encoding conventions                                                    *)
(*   Option<T>      : <<>> is None, <<x>> is Some(x)                       *)
(*   Result<T>      : a record with st \in {"Ok", "Err", "Panic"}          *)
(*   path template  : a sequence of segments; the segment "{id}" is the    *)
(*                    placeholder of the parameter id                      *)
(*   serde_json     : a record [json |-> tag, v |-> content]               *)
(***************************************************************************)
EXTENDS Integers, Sequences, FiniteSets, TLC

(***************************************************************************)
(* Bounds of the model.                                                    *)
(***************************************************************************)
\* Number of units of fuzzer input per payload (the code takes 1024 bytes).
GenBytes == 2
\* Largest explicit min_items / max_items of the array schemas explored.
MaxItems == 2

(***************************************************************************)
(* Program constants.                                                      *)
(***************************************************************************)
\* array.min_items.unwrap_or(1)
DefaultMinItems == 1
\* array.max_items.unwrap_or(10)
DefaultMaxItems == 10

None == <<>>
Some(x) == <<x>>
unwrap_or(opt, dflt) == IF opt = None THEN dflt ELSE opt[1]

(***************************************************************************)
(* The randomness source: rand Alphanumeric samples wrapped in an          *)
(* arbitrary::Unstructured.  One unit of input stands for the bytes one    *)
(* primitive consumes.  An exhausted Unstructured does not fail: it yields *)
(* the empty string, zero and false.                                       *)
(***************************************************************************)
Alphanumeric == {1, 2}

fuzzer_inputs == [1..GenBytes -> Alphanumeric]

take(gen) ==
    IF gen = <<>> THEN [b |-> 0, gen |-> <<>>]
    ELSE [b |-> Head(gen), gen |-> Tail(gen)]

decode_String(b) == IF b = 0 THEN "" ELSE IF b = 1 THEN "a" ELSE "7"

arbitrary_String(gen) ==
    LET t == take(gen) IN [val |-> decode_String(t.b), gen |-> t.gen]

arbitrary_f64(gen) == LET t == take(gen) IN [val |-> t.b, gen |-> t.gen]

arbitrary_i64(gen) == LET t == take(gen) IN [val |-> t.b, gen |-> t.gen]

arbitrary_bool(gen) ==
    LET t == take(gen) IN [val |-> (t.b % 2 = 1), gen |-> t.gen]

(***************************************************************************)
(* Schema nodes (openapiv3::SchemaKind and Type) and JSON values.          *)
(***************************************************************************)
SchemaString == [kind |-> "Type", ty |-> [type |-> "String"]]
SchemaNumber == [kind |-> "Type", ty |-> [type |-> "Number"]]
SchemaInteger == [kind |-> "Type", ty |-> [type |-> "Integer"]]
SchemaBoolean == [kind |-> "Type", ty |-> [type |-> "Boolean"]]
SchemaArray(items, min_items, max_items) ==
    [kind |-> "Type",
     ty |-> [type |-> "Array", items |-> items,
             min_items |-> min_items, max_items |-> max_items]]
SchemaObject(properties) ==
    [kind |-> "Type", ty |-> [type |-> "Object", properties |-> properties]]
SchemaOneOf == [kind |-> "OneOf"]
SchemaAnyOf == [kind |-> "AnyOf"]
SchemaAllOf == [kind |-> "AllOf"]
SchemaAny == [kind |-> "Any"]

Json(tag, v) == [json |-> tag, v |-> v]

Ok(val, gen) == [st |-> "Ok", val |-> val, gen |-> gen]
\* todo!() unwinds out of every caller up to main.
Panic == [st |-> "Panic", val |-> <<>>, gen |-> <<>>]

RECURSIVE schema_kind_to_json(_, _)
RECURSIVE array_items(_, _, _, _, _)
RECURSIVE object_properties(_, _, _, _)

\* (min..=max).map(|_| schema_kind_to_json(items, gen)).collect(): one
\* element per index i of the range, generated left to right.
array_items(i, max, items, gen, acc) ==
    IF i > max THEN Ok(acc, gen)
    ELSE LET r == schema_kind_to_json(items, gen) IN
         IF r.st # "Ok" THEN r
         ELSE array_items(i + 1, max, items, r.gen, Append(acc, r.val))

generate_json_array(array, gen) ==
    LET min == unwrap_or(array.min_items, DefaultMinItems)
        max == unwrap_or(array.max_items, DefaultMaxItems)
        r == array_items(min, max, array.items, gen, <<>>)
    IN IF r.st # "Ok" THEN r ELSE Ok(Json("Array", r.val), r.gen)

\* json_object.insert(name, value) for each property in declared order.
object_properties(properties, i, gen, acc) ==
    IF i > Len(properties) THEN Ok(acc, gen)
    ELSE LET r == schema_kind_to_json(properties[i][2], gen) IN
         IF r.st # "Ok" THEN r
         ELSE object_properties(properties, i + 1, r.gen,
                [n \in DOMAIN acc \cup {properties[i][1]} |->
                    IF n = properties[i][1] THEN r.val ELSE acc[n]])

generate_json_object(object, gen) ==
    LET r == object_properties(object.properties, 1, gen,
                               [n \in {} |-> <<>>])
    IN IF r.st # "Ok" THEN r ELSE Ok(Json("Object", r.val), r.gen)

schema_type_to_json(schema_type, gen) ==
    CASE schema_type.type = "String" ->
           LET a == arbitrary_String(gen) IN Ok(Json("String", a.val), a.gen)
      [] schema_type.type = "Number" ->
           LET a == arbitrary_f64(gen) IN Ok(Json("Number", a.val), a.gen)
      [] schema_type.type = "Integer" ->
           LET a == arbitrary_i64(gen) IN Ok(Json("Number", a.val), a.gen)
      [] schema_type.type = "Object" -> generate_json_object(schema_type, gen)
      [] schema_type.type = "Array" -> generate_json_array(schema_type, gen)
      [] schema_type.type = "Boolean" ->
           LET a == arbitrary_bool(gen) IN Ok(Json("Bool", a.val), a.gen)

schema_kind_to_json(schema_kind, gen) ==
    CASE schema_kind.kind = "Any" -> Panic
      [] schema_kind.kind = "Type" -> schema_type_to_json(schema_kind.ty, gen)
      [] schema_kind.kind = "OneOf" -> Panic
      [] schema_kind.kind = "AnyOf" -> Panic
      [] schema_kind.kind = "AllOf" -> Panic

(***************************************************************************)
(* Payload generation: prepare_request and create_fuzz_payload.            *)
(***************************************************************************)
EmptyBuckets ==
    [query_params |-> <<>>, path_params |-> <<>>,
     headers |-> <<>>, cookies |-> <<>>]

RECURSIVE parameters_loop(_, _, _, _)
\* for ref_or_param in operation.parameters.iter(): one arbitrary String per
\* parameter, pushed on the vector of the parameter's location.
parameters_loop(parameters, i, gen, acc) ==
    IF i > Len(parameters) THEN Ok(acc, gen)
    ELSE LET param == parameters[i]
             a == arbitrary_String(gen)
             pair == <<param.name, a.val>>
         IN parameters_loop(parameters, i + 1, a.gen,
              CASE param.loc = "Query" ->
                     [acc EXCEPT !.query_params = Append(@, pair)]
                [] param.loc = "Path" ->
                     [acc EXCEPT !.path_params = Append(@, pair)]
                [] param.loc = "Header" ->
                     [acc EXCEPT !.headers = Append(@, pair)]
                [] param.loc = "Cookie" ->
                     [acc EXCEPT !.cookies = Append(@, pair)])

RECURSIVE content_loop(_, _, _, _)
\* request_body.content.iter().map(..schema..).flatten().collect(): one
\* value per media type that has a schema, in declaration order.
content_loop_first_only(content, i, gen, acc) ==
    IF i > Len(content) \/ Len(acc) >= 1 THEN Ok(acc, gen)
    ELSE IF content[i].schema = None
         THEN content_loop(content, i + 1, gen, acc)
         ELSE LET r == schema_kind_to_json(content[i].schema[1], gen) IN
              IF r.st # "Ok" THEN r
              ELSE content_loop(content, i + 1, r.gen, Append(acc, r.val))

content_loop(content, i, gen, acc) ==
    IF i > Len(content) THEN Ok(acc, gen)
    ELSE IF content[i].schema = None
         THEN content_loop(content, i + 1, gen, acc)
         ELSE LET r == schema_kind_to_json(content[i].schema[1], gen) IN
              IF r.st # "Ok" THEN r
              ELSE content_loop(content, i + 1, r.gen, Append(acc, r.val))

prepare_request(method, path, operation, fuzzer_input) ==
    LET params == parameters_loop(operation.parameters, 1, fuzzer_input,
                                  EmptyBuckets)
        body == IF operation.request_body = None
                THEN Ok(<<>>, params.gen)
                ELSE content_loop(operation.request_body[1].content, 1,
                                  params.gen, <<>>)
    IN IF body.st # "Ok" THEN body
       ELSE Ok([method |-> method,
                path |-> path,
                query_params |-> params.val.query_params,
                path_params |-> params.val.path_params,
                headers |-> params.val.headers,
                cookies |-> params.val.cookies,
                body |-> body.val,
                responses |-> operation.responses], body.gen)

operations_put_from_post(item) ==
    << <<"GET", item.get>>, <<"PUT", item.post>>, <<"POST", item.post>>,
       <<"DELETE", item.delete>>, <<"OPTIONS", item.options>>,
       <<"HEAD", item.head>>, <<"PATCH", item.patch>>,
       <<"TRACE", item.trace>> >>

operations(item) ==
    << <<"GET", item.get>>, <<"PUT", item.put>>, <<"POST", item.post>>,
       <<"DELETE", item.delete>>, <<"OPTIONS", item.options>>,
       <<"HEAD", item.head>>, <<"PATCH", item.patch>>,
       <<"TRACE", item.trace>> >>

RECURSIVE payloads_loop(_, _, _, _, _)
payloads_loop(path, ops, i, inputs, payloads) ==
    IF i > Len(ops) THEN Ok(payloads, <<>>)
    ELSE IF ops[i][2] = None
         THEN payloads_loop(path, ops, i + 1, inputs, payloads)
         ELSE LET r == prepare_request(ops[i][1], path, ops[i][2][1],
                                       inputs[i]) IN
              IF r.st # "Ok" THEN r
              ELSE payloads_loop(path, ops, i + 1, inputs,
                                 Append(payloads, r.val))

\* inputs[i] is the fuzzer input drawn by the prepare_request call of the
\* i-th method.
create_fuzz_payload(path, item, inputs) ==
    payloads_loop(path, operations(item), 1, inputs, <<>>)

(***************************************************************************)
(* Request assembly: the part of send_request that precedes the network    *)
(* call.                                                                   *)
(***************************************************************************)
\* format!("{{{}}}", name)
placeholder(name) == "{" \o name \o "}"

\* str::replace on a segmented path: every occurrence is replaced.
replace(path, pattern, value) ==
    [i \in DOMAIN path |-> IF path[i] = pattern THEN value ELSE path[i]]

RECURSIVE substitute(_, _, _)
substitute(path, path_params, i) ==
    IF i > Len(path_params) THEN path
    ELSE substitute(replace(path, placeholder(path_params[i][1]),
                            path_params[i][2]),
                    path_params, i + 1)

\* Names that occur as placeholders or parameters in the documents explored.
Names == {"id", "owner", "q", "h", "sid"}

\* The url crate percent-encodes '{' and '}' in a path.
percent_encode(segment) ==
    IF \E n \in Names : segment = placeholder(n)
    THEN LET n == CHOOSE n \in Names : segment = placeholder(n)
         IN "%7B" \o n \o "%7D"
    ELSE segment

\* Url::join of a reference that starts with '/': an absolute path replaces
\* the path of the base; a reference that starts with "//" names a new
\* host, and an unterminated IPv6 literal is a parse error.
url_join(url, path) ==
    IF Len(path) >= 2 /\ path[1] = ""
    THEN IF path[2] = "["
         THEN [st |-> "Err", val |-> "invalid IPv6 address"]
         ELSE [st |-> "Ok",
               val |-> [host |-> path[2],
                        path |-> [i \in 1..(Len(path) - 2) |->
                                    percent_encode(path[i + 2])]]]
    ELSE [st |-> "Ok",
          val |-> [host |-> url.host,
                   path |-> [i \in DOMAIN path |-> percent_encode(path[i])]]]

\* The request as it stands when send_json / call is reached.
build_request(url, payload) ==
    LET path_with_params == substitute(payload.path, payload.path_params, 1)
        joined == url_join(url, path_with_params)
    IN IF joined.st # "Ok" THEN joined
       ELSE [st |-> "Ok",
             val |-> [method |-> payload.method,
                      url |-> joined.val,
                      query |-> payload.query_params,
                      headers |-> payload.headers,
                      body |-> IF Len(payload.body) > 0
                               THEN Some(payload.body[1]) ELSE None]]

(***************************************************************************)
(* Response validation.                                                    *)
(***************************************************************************)
StatusCode_Code(n) == [kind |-> "Code", n |-> n]
StatusCode_Range(n) == [kind |-> "Range", n |-> n]

contains_key_with_ranges(responses, status) ==
    \/ StatusCode_Code(status) \in responses
    \/ StatusCode_Range(status \div 100) \in responses

contains_key(responses, status) == StatusCode_Code(status) \in responses

\* What check_response writes to stdout for the payload.
check_response(resp, payload) ==
    [path |-> payload.path, method |-> payload.method,
     stream |-> "stdout", text |-> ".",
     unexpected |-> IF ~contains_key(payload.responses.responses, resp.status)
                    THEN Some(resp.status) ELSE None]

(***************************************************************************)
(* The API descriptions explored.  A document is the ordered map paths of  *)
(* the OpenAPI value: a sequence of [path, item] with distinct paths.      *)
(***************************************************************************)
Param(loc, name) == [loc |-> loc, name |-> name]
Media(media_type, schema) == [media_type |-> media_type, schema |-> schema]
Responses(keys) == [default |-> None, responses |-> keys]
Operation(parameters, request_body, responses) ==
    [parameters |-> parameters, request_body |-> request_body,
     responses |-> responses]
RequestBody(content) == [content |-> content]

NoOperations ==
    [get |-> None, put |-> None, post |-> None, delete |-> None,
     options |-> None, head |-> None, patch |-> None, trace |-> None]

PathEntry(path, item) == [path |-> path, item |-> item]

OpPlain(codes) ==
    Operation(<<>>, None, Responses({StatusCode_Code(c) : c \in codes}))

\* GET /health declaring {200}.
DocHealth ==
    << PathEntry(<<"health">>,
                 [NoOperations EXCEPT !.get = Some(OpPlain({200}))]) >>

\* /pets/{id}: GET with one parameter of every location; POST with a body of
\* three media types, the last without a schema; DELETE on a second path.
DocPets ==
    << PathEntry(<<"pets", "{id}">>,
         [NoOperations EXCEPT
            !.get = Some(Operation(
                      <<Param("Path", "id"), Param("Query", "q"),
                        Param("Header", "h"), Param("Cookie", "sid")>>,
                      None,
                      Responses({StatusCode_Code(200), StatusCode_Code(404)}))),
            !.post = Some(Operation(
                      <<Param("Path", "id")>>,
                      Some(RequestBody(
                        <<Media("application/json", Some(SchemaString)),
                          Media("application/xml", Some(SchemaBoolean)),
                          Media("text/plain", None)>>)),
                      Responses({StatusCode_Code(201), StatusCode_Range(4)})))]),
       PathEntry(<<"owners">>,
         [NoOperations EXCEPT !.delete = Some(OpPlain({200}))]) >>

\* /pets/{id}/{owner}/{id} where the operation declares only id.
DocUnresolved ==
    << PathEntry(<<"pets", "{id}", "{owner}", "{id}">>,
         [NoOperations EXCEPT
            !.get = Some(Operation(<<Param("Path", "id")>>, None,
                                   Responses({StatusCode_Code(200)})))]) >>

\* An unsupported schema kind in the body of PUT /a, next to GET /a, with
\* GET /b before it and GET /c after it.
DocUnsupported(kind) ==
    << PathEntry(<<"b">>, [NoOperations EXCEPT !.get = Some(OpPlain({200}))]),
       PathEntry(<<"a">>,
         [NoOperations EXCEPT
            !.get = Some(OpPlain({200})),
            !.put = Some(Operation(<<>>,
                      Some(RequestBody(<<Media("application/json",
                                               Some(kind))>>)),
                      Responses({StatusCode_Code(200)})))]),
       PathEntry(<<"c">>, [NoOperations EXCEPT !.get = Some(OpPlain({200}))]) >>

\* The path "//[" does not join with any base; HEAD and PATCH on it, and
\* TRACE /t after it.
DocMalformed ==
    << PathEntry(<<"", "[">>,
         [NoOperations EXCEPT !.head = Some(OpPlain({200})),
                              !.patch = Some(OpPlain({200, 404}))]),
       PathEntry(<<"t">>,
         [NoOperations EXCEPT !.trace = Some(OpPlain({200}))]) >>

ItemBounds == {None} \cup {Some(n) : n \in 0..MaxItems}

\* POST /arr whose body is an array of integers with the given bounds.
DocArray(min_items, max_items) ==
    << PathEntry(<<"arr">>,
         [NoOperations EXCEPT
            !.post = Some(Operation(<<>>,
                       Some(RequestBody(<<Media("application/json",
                          Some(SchemaArray(SchemaInteger,
                                           min_items, max_items)))>>)),
                       Responses({StatusCode_Code(200)})))]) >>

\* OPTIONS /obj whose body is an object holding a number, a string and an
\* array of strings.
DocObject ==
    << PathEntry(<<"obj">>,
         [NoOperations EXCEPT
            !.options = Some(Operation(<<>>,
                       Some(RequestBody(<<Media("application/json",
                          Some(SchemaObject(
                            << <<"n", SchemaNumber>>, <<"s", SchemaString>>,
                               <<"tags", SchemaArray(SchemaString,
                                            Some(1), Some(1))>> >>)))>>)),
                       Responses({StatusCode_Code(200)})))]) >>

Docs ==
    {<<>>, DocHealth, DocPets, DocUnresolved, DocMalformed, DocObject}
    \cup {DocUnsupported(k) :
            k \in {SchemaOneOf, SchemaAnyOf, SchemaAllOf, SchemaAny}}
    \cup {DocArray(a, b) : a \in ItemBounds, b \in ItemBounds}

\* Status codes the target may answer with.
Statuses == {200, 404, 503}

\* args.url
args_url == [host |-> "api", path |-> <<>>]

(***************************************************************************)
(* State.                                                                  *)
(***************************************************************************)
VARIABLES
    specfile,        \* contents of args.spec: does it parse, and to what
    openapi_schema,  \* the paths of the loaded document
    pc,              \* position of main
    pathIdx,         \* position of the outer for loop in openapi_schema
    payloads,        \* payloads of the current path not yet consumed
    network,         \* requests sent and not yet answered
    result,          \* value returned by send_request
    console,         \* lines written to stdout/stderr during this pass
    passPayloads     \* payloads returned by create_fuzz_payload this pass

vars == <<specfile, openapi_schema, pc, pathIdx, payloads, network, result,
          console, passPayloads>>

NoResult == [st |-> "None", status |-> 0, error |-> ""]
OkResponse(status) == [st |-> "Ok", status |-> status, error |-> ""]
ErrResult(error) == [st |-> "Err", status |-> 0, error |-> error]

Init ==
    /\ specfile \in {[parses |-> FALSE, paths |-> <<>>]}
                    \cup {[parses |-> TRUE, paths |-> d] : d \in Docs}
    /\ openapi_schema = <<>>
    /\ pc = "Idle"
    /\ pathIdx = 1
    /\ payloads = <<>>
    /\ network = <<>>
    /\ result = NoResult
    /\ console = <<>>
    /\ passPayloads = <<>>

(***************************************************************************)
(* main.                                                                   *)
(***************************************************************************)
\* read_to_string / serde_yaml::from_str fail: main returns the error.
StartupError ==
    /\ pc = "Idle"
    /\ ~specfile.parses
    /\ pc' = "StartupError"
    /\ UNCHANGED <<specfile, openapi_schema, pathIdx, payloads, network,
                   result, console, passPayloads>>

LoadSpec ==
    /\ pc = "Idle"
    /\ specfile.parses
    /\ openapi_schema' = specfile.paths
    /\ pc' = "IteratingPaths"
    /\ pathIdx' = 1
    /\ UNCHANGED <<specfile, payloads, network, result, console, passPayloads>>

NonNull(item) == {i \in 1..Len(operations(item)) : operations(item)[i][2] # None}

\* create_fuzz_payload(path, item)? returns the payloads of every operation
\* of the path.
CreateFuzzPayload ==
    /\ pc = "IteratingPaths"
    /\ pathIdx <= Len(openapi_schema)
    /\ LET entry == openapi_schema[pathIdx] IN
       \E inputs \in [NonNull(entry.item) -> fuzzer_inputs] :
          LET r == create_fuzz_payload(entry.path, entry.item, inputs) IN
          /\ r.st = "Ok"
          /\ payloads' = r.val
          /\ passPayloads' = passPayloads \o r.val
          /\ pc' = "IteratingOperations"
    /\ UNCHANGED <<specfile, openapi_schema, pathIdx, network, result, console>>

\* create_fuzz_payload reaches a todo!(): the process panics.
CreateFuzzPayloadPanics ==
    /\ pc = "IteratingPaths"
    /\ pathIdx <= Len(openapi_schema)
    /\ LET entry == openapi_schema[pathIdx] IN
       \E inputs \in [NonNull(entry.item) -> fuzzer_inputs] :
          create_fuzz_payload(entry.path, entry.item, inputs).st = "Panic"
    /\ pc' = "Panicked"
    /\ UNCHANGED <<specfile, openapi_schema, pathIdx, payloads, network,
                   result, console, passPayloads>>

SendRequest_no_wait ==
    /\ pc = "IteratingOperations"
    /\ payloads # <<>>
    /\ LET r == build_request(args_url, Head(payloads)) IN
       IF r.st = "Ok"
       THEN /\ network' = Append(network, r.val)
            /\ pc' = "IteratingOperations"
            /\ payloads' = Tail(payloads)
            /\ result' = result
       ELSE /\ network' = network
            /\ pc' = "Match"
            /\ payloads' = payloads
            /\ result' = ErrResult(r.val)
    /\ UNCHANGED <<specfile, openapi_schema, pathIdx, console, passPayloads>>

\* send_request up to the network call: the request goes on the wire, or
\* url.join(..)? returns the error.
SendRequest ==
    /\ pc = "IteratingOperations"
    /\ payloads # <<>>
    /\ LET r == build_request(args_url, Head(payloads)) IN
       IF r.st = "Ok"
       THEN /\ network' = Append(network, r.val)
            /\ pc' = "Sending"
            /\ result' = result
       ELSE /\ network' = network
            /\ pc' = "Match"
            /\ result' = ErrResult(r.val)
    /\ UNCHANGED <<specfile, openapi_schema, pathIdx, payloads, console,
                   passPayloads>>

\* The target answers; or_any_status() makes every status an Ok response.
NetworkResponds ==
    /\ pc = "Sending"
    /\ network # <<>>
    /\ \E status \in Statuses : result' = OkResponse(status)
    /\ network' = Tail(network)
    /\ pc' = "Match"
    /\ UNCHANGED <<specfile, openapi_schema, pathIdx, payloads, console,
                   passPayloads>>

\* The transport fails; or_any_status()? returns the error.
NetworkFails ==
    /\ pc = "Sending"
    /\ network # <<>>
    /\ result' = ErrResult("transport")
    /\ network' = Tail(network)
    /\ pc' = "Match"
    /\ UNCHANGED <<specfile, openapi_schema, pathIdx, payloads, console,
                   passPayloads>>

\* Ok(resp) => check_response(&resp, &payload)
MatchOk ==
    /\ pc = "Match"
    /\ result.st = "Ok"
    /\ console' = Append(console, check_response(result, Head(payloads)))
    /\ payloads' = Tail(payloads)
    /\ result' = NoResult
    /\ pc' = "IteratingOperations"
    /\ UNCHANGED <<specfile, openapi_schema, pathIdx, network, passPayloads>>

MatchErr_propagates ==
    /\ pc = "Match"
    /\ result.st = "Err"
    /\ pc' = "Exited"
    /\ UNCHANGED <<specfile, openapi_schema, pathIdx, payloads, network,
                   result, console, passPayloads>>

\* Err(e) => eprintln!("Err sending req: {}", e)
MatchErr ==
    /\ pc = "Match"
    /\ result.st = "Err"
    /\ console' = Append(console,
                    [path |-> Head(payloads).path,
                     method |-> Head(payloads).method,
                     stream |-> "stderr", text |-> "Err sending req",
                     unexpected |-> None])
    /\ payloads' = Tail(payloads)
    /\ result' = NoResult
    /\ pc' = "IteratingOperations"
    /\ UNCHANGED <<specfile, openapi_schema, pathIdx, network, passPayloads>>

\* The inner for loop is exhausted: the outer one takes the next path.
NextPath ==
    /\ pc = "IteratingOperations"
    /\ payloads = <<>>
    /\ pathIdx' = pathIdx + 1
    /\ pc' = "IteratingPaths"
    /\ UNCHANGED <<specfile, openapi_schema, payloads, network, result,
                   console, passPayloads>>

\* The outer for loop is exhausted: loop starts the next pass.
NextPass ==
    /\ pc = "IteratingPaths"
    /\ pathIdx > Len(openapi_schema)
    /\ pathIdx' = 1
    /\ console' = <<>>
    /\ passPayloads' = <<>>
    /\ UNCHANGED <<specfile, openapi_schema, pc, payloads, network, result>>

Next ==
    \/ StartupError
    \/ LoadSpec
    \/ CreateFuzzPayload
    \/ CreateFuzzPayloadPanics
    \/ SendRequest
    \/ NetworkResponds
    \/ NetworkFails
    \/ MatchOk
    \/ MatchErr
    \/ NextPath
    \/ NextPass

Spec == Init /\ [][Next]_vars

(***************************************************************************)
(* Vocabulary of the properties: what the loaded document declares.        *)
(***************************************************************************)
Methods ==
    {"GET", "PUT", "POST", "DELETE", "OPTIONS", "HEAD", "PATCH", "TRACE"}

\* The Option<Operation> the path item declares for a method.
Declared(item, method) ==
    CASE method = "GET" -> item.get
      [] method = "PUT" -> item.put
      [] method = "POST" -> item.post
      [] method = "DELETE" -> item.delete
      [] method = "OPTIONS" -> item.options
      [] method = "HEAD" -> item.head
      [] method = "PATCH" -> item.patch
      [] method = "TRACE" -> item.trace

\* The operation of (path, method) in the loaded document, or None.
DeclaredOperation(path, method) ==
    IF \E i \in DOMAIN openapi_schema : openapi_schema[i].path = path
    THEN LET i == CHOOSE i \in DOMAIN openapi_schema :
                     openapi_schema[i].path = path
         IN Declared(openapi_schema[i].item, method)
    ELSE None

NonNullPairs ==
    {pm \in {openapi_schema[i].path : i \in DOMAIN openapi_schema} \X Methods :
        DeclaredOperation(pm[1], pm[2]) # None}

\* The schemas of the media types of a request body that have one.
RECURSIVE BodySchemasFrom(_, _)
BodySchemasFrom(content, i) ==
    IF i > Len(content) THEN <<>>
    ELSE IF content[i].schema = None THEN BodySchemasFrom(content, i + 1)
         ELSE <<content[i].schema[1]>> \o BodySchemasFrom(content, i + 1)

BodySchemas(operation) ==
    IF operation.request_body = None THEN <<>>
    ELSE BodySchemasFrom(operation.request_body[1].content, 1)

RECURSIVE Supported(_)
Supported(schema) ==
    /\ schema.kind = "Type"
    /\ schema.ty.type = "Array" => Supported(schema.ty.items)
    /\ schema.ty.type = "Object" =>
         \A i \in DOMAIN schema.ty.properties :
            Supported(schema.ty.properties[i][2])

BodySupported(operation) ==
    \A i \in DOMAIN BodySchemas(operation) :
       Supported(BodySchemas(operation)[i])

\* A JSON value has the shape its schema describes (lengths aside).
RECURSIVE Conforms(_, _)
Conforms(val, schema) ==
    /\ schema.kind = "Type"
    /\ CASE schema.ty.type = "String" -> val.json = "String"
         [] schema.ty.type \in {"Number", "Integer"} -> val.json = "Number"
         [] schema.ty.type = "Boolean" -> val.json = "Bool"
         [] schema.ty.type = "Array" ->
              /\ val.json = "Array"
              /\ \A i \in DOMAIN val.v : Conforms(val.v[i], schema.ty.items)
         [] schema.ty.type = "Object" ->
              /\ val.json = "Object"
              /\ DOMAIN val.v = {schema.ty.properties[i][1] :
                                   i \in DOMAIN schema.ty.properties}
              /\ \A i \in DOMAIN schema.ty.properties :
                    Conforms(val.v[schema.ty.properties[i][1]],
                             schema.ty.properties[i][2])

\* Every array inside val, generated from an array schema with
\* min_items <= max_items, has a length between the two.
RECURSIVE LengthsInBounds(_, _)
LengthsInBounds(val, schema) ==
    CASE schema.ty.type = "Array" ->
           LET a == unwrap_or(schema.ty.min_items, DefaultMinItems)
               b == unwrap_or(schema.ty.max_items, DefaultMaxItems)
           IN /\ a <= b => (a <= Len(val.v) /\ Len(val.v) <= b)
              /\ \A i \in DOMAIN val.v :
                    LengthsInBounds(val.v[i], schema.ty.items)
      [] schema.ty.type = "Object" ->
           \A i \in DOMAIN schema.ty.properties :
              LengthsInBounds(val.v[schema.ty.properties[i][1]],
                              schema.ty.properties[i][2])
      [] OTHER -> TRUE

LastLine == console[Len(console)]

StderrLine(payload) ==
    [path |-> payload.path, method |-> payload.method,
     stream |-> "stderr", text |-> "Err sending req", unexpected |-> None]

(***************************************************************************)
(* Properties.                                                             *)
(***************************************************************************)

\* C1: whenever main hands a response to check_response, the line written
\* carries the 'Unexpected status code' diagnostic with the status if and
\* only if the status is not a Code key of the Responses the document
\* declares for the operation (path, method) of the payload.
C1_AnomalyIffUndeclared ==
    [][(pc = "Match" /\ result.st = "Ok") =>
         LET payload == Head(payloads)
             op == DeclaredOperation(payload.path, payload.method)
             line == console'[Len(console')]
             declared == {k.n : k \in {x \in op[1].responses.responses :
                                          x.kind = "Code"}}
         IN /\ op # None
            /\ Len(console') = Len(console) + 1
            /\ line.stream = "stdout"
            /\ line.path = payload.path /\ line.method = payload.method
            /\ IF result.status \in declared
               THEN line.unexpected = None
               ELSE line.unexpected = Some(result.status)]_vars

\* C1 witness: in one pass a declared status was accepted silently and an
\* undeclared one (404 against the keys 201 and 4XX) was reported.
C1_Witness ==
    /\ \E i \in DOMAIN console :
          console[i].stream = "stdout" /\ console[i].unexpected = None
    /\ \E i \in DOMAIN console :
          /\ console[i].unexpected = Some(404)
          /\ console[i].method = "POST"

\* C2: when send_request returned an error, main writes the error line for
\* that payload, validates nothing, puts nothing on the wire, drops the
\* payload and is back in the loop over the remaining payloads; it neither
\* exits nor panics.
C2_SendFailureIsSkipped ==
    [][(pc = "Match" /\ result.st = "Err") =>
         /\ console' = Append(console, StderrLine(Head(payloads)))
         /\ payloads' = Tail(payloads)
         /\ network' = network
         /\ pc' = "IteratingOperations"
         /\ pathIdx' = pathIdx]_vars

\* C2 witness: the error line of a failed send is on the console, the loop
\* is running and the next payload of the same path is waiting.
C2_Witness ==
    /\ console # <<>>
    /\ LastLine.stream = "stderr"
    /\ pc = "IteratingOperations"
    /\ payloads # <<>>
    /\ payloads[1].path = LastLine.path

\* C3: a path with an unsupported schema kind in a request body does not
\* abort the process: create_fuzz_payload leaves main in the loop with the
\* payloads of the path's other operations.
C3_UnsupportedIsRecoverable ==
    [][(/\ pc = "IteratingPaths"
        /\ pathIdx <= Len(openapi_schema)
        /\ \E m \in Methods :
              LET op == Declared(openapi_schema[pathIdx].item, m) IN
              op # None /\ ~BodySupported(op[1])) =>
         /\ pc' = "IteratingOperations"
         /\ \A m \in Methods :
               LET op == Declared(openapi_schema[pathIdx].item, m) IN
               (op # None /\ BodySupported(op[1])) =>
                  \E i \in DOMAIN payloads' : payloads'[i].method = m]_vars

\* Payloads built and not yet handed to send_request.
Unsent == IF pc \in {"Sending", "Match"} THEN Tail(payloads) ELSE payloads

\* C4 as stated: at most one payload is built and not yet sent, and at most
\* one request is in flight.
C4_StrictlySequential ==
    /\ Len(Unsent) <= 1
    /\ Len(network) <= 1

\* C4 amended: the loop is sequential per path.  Payloads are built only
\* when none is pending and nothing is in flight; the pending payloads all
\* belong to the current path, one per method; a request is in flight only
\* while main waits for it, for the first pending payload, and never more
\* than one.
C4_SequentialPerPath ==
    /\ Len(network) <= 1
    /\ network # <<>> => pc = "Sending"
    /\ pc \in {"Sending", "Match"} => payloads # <<>>
    /\ pc = "Sending" =>
         /\ network # <<>>
         /\ network[1].method = Head(payloads).method
    /\ pc \in {"Idle", "IteratingPaths"} => (payloads = <<>> /\ network = <<>>)
    /\ \A i \in DOMAIN payloads :
          /\ pathIdx <= Len(openapi_schema)
          /\ payloads[i].path = openapi_schema[pathIdx].path
    /\ \A i, j \in DOMAIN payloads :
          i # j => payloads[i].method # payloads[j].method

\* C4 witness: a request is in flight while a second payload of the same
\* path is already built and waiting.
C4_Witness ==
    /\ pc = "Sending"
    /\ Len(network) = 1
    /\ Len(payloads) >= 2

PairOf(payload) == <<payload.path, payload.method>>

\* C5: the payloads create_fuzz_payload returned in the current pass each
\* belong to a (path, method) whose operation is declared, carry that
\* operation's Responses, and no pair has two; when the pass is over they
\* cover every pair with a declared operation.
C5_OnePayloadPerOperation ==
    /\ \A i \in DOMAIN passPayloads :
          LET op == DeclaredOperation(passPayloads[i].path,
                                      passPayloads[i].method)
          IN /\ op # None
             /\ passPayloads[i].responses = op[1].responses
    /\ \A i, j \in DOMAIN passPayloads :
          i # j => PairOf(passPayloads[i]) # PairOf(passPayloads[j])
    /\ (pc = "IteratingPaths" /\ pathIdx > Len(openapi_schema)) =>
          {PairOf(passPayloads[i]) : i \in DOMAIN passPayloads} = NonNullPairs

\* C5 witness: a pass over a document with three operations on two paths
\* is over and produced three payloads.
C5_Witness ==
    /\ pc = "IteratingPaths"
    /\ pathIdx > Len(openapi_schema)
    /\ Len(passPayloads) = 3
    /\ Cardinality(NonNullPairs) = 3

\* C6: once the document is loaded the process never reaches a terminal
\* state of its own.
C6_NoTerminalState ==
    pc \notin {"Idle", "StartupError"} => pc # "Panicked"

EncodedPlaceholder(name) == "%7B" \o name \o "%7D"

\* C7: no request on the wire has a path segment that is a placeholder,
\* literal or percent-encoded.
C7_NoPlaceholderSent ==
    \A i \in DOMAIN network :
       \A j \in DOMAIN network[i].url.path :
          \A n \in Names :
             /\ network[i].url.path[j] # placeholder(n)
             /\ network[i].url.path[j] # EncodedPlaceholder(n)

\* C8: every array generated into a body from an array schema with
\* min_items a <= max_items b (defaults 1 and 10) has a length in [a, b].
C8_ArrayLengthInBounds ==
    \A i \in DOMAIN passPayloads :
       LET op == DeclaredOperation(passPayloads[i].path,
                                   passPayloads[i].method)
           schemas == BodySchemas(op[1])
       IN \A k \in DOMAIN passPayloads[i].body :
             k <= Len(schemas) =>
                LengthsInBounds(passPayloads[i].body[k], schemas[k])

\* C9 as stated: the body of every payload has length 0 or 1.
C9_BodyAtMostOne ==
    \A i \in DOMAIN passPayloads : Len(passPayloads[i].body) <= 1

\* C9 amended: the body of every payload holds one value per media type of
\* the request body that has a schema, in declaration order, each of the
\* shape of its schema (none when no request body is declared); the request
\* on the wire carries the first of them, or no body when there is none.
C9_BodyPerSchema ==
    /\ \A i \in DOMAIN passPayloads :
          LET op == DeclaredOperation(passPayloads[i].path,
                                      passPayloads[i].method)
              schemas == BodySchemas(op[1])
              body == passPayloads[i].body
          IN /\ Len(body) = Len(schemas)
             /\ op[1].request_body = None => body = <<>>
             /\ \A k \in DOMAIN body : Conforms(body[k], schemas[k])
    /\ pc = "Sending" =>
          \A i \in DOMAIN network :
             network[i].body =
                IF Head(payloads).body = <<>> THEN None
                ELSE Some(Head(payloads).body[1])

\* C9 witness: a payload with two body values is being sent, and the
\* request carries the first one.
C9_Witness ==
    /\ pc = "Sending"
    /\ network # <<>>
    /\ Len(Head(payloads).body) = 2
    /\ network[1].body = Some(Head(payloads).body[1])

\* C10: the request on the wire carries every cookie parameter of the
\* payload it was built from, in a Cookie header.
C10_CookiesCarried ==
    pc = "Sending" =>
       \A i \in DOMAIN network :
          \A c \in DOMAIN Head(payloads).cookies :
             \E h \in DOMAIN network[i].headers :
                /\ network[i].headers[h][1] = "Cookie"
                /\ network[i].headers[h][2] =
                     Head(payloads).cookies[c][1] \o "="
                       \o Head(payloads).cookies[c][2]

====
